---- MODULE Spec2Model ----
(***************************************************************************)
(* xfdr: conversion of a Garmin EIS avionics log into an X-Plane FDR file. *)
(*                                                                         *)
(* The model covers the Field Mapper (GarminLogFile::data_block and        *)
(* FlightDataBlock::new) and the Record Writer (FDRWriter::write), as a    *)
(* state machine whose steps are the statements of FDRWriter::write; the   *)
(* configuration builder; the Header Parser and the Schema Inferencer      *)
(* (GarminEISLogHeader) with read_bytes; and the Data Cleaner              *)
(* (clean_dataframe), each under a specification of its own.               *)
(*                                                                         *)
(* Representation                                                          *)
(*  - a DataFrame is a sequence of columns [name, dtype, values]; every    *)
(*    column of one frame has the same number of values;                   *)
(*  - a cell is an integer, Null stands for a missing value;               *)
(*  - an instant of the timestamp column is a number of seconds since the  *)
(*    epoch (UTC); its rendering by strftime("%H:%M:%S") is the number     *)
(*    whose decimal digits are HHMMSS;                                     *)
(*  - an f64 scale is a fixed-point number in units of 10^-8;              *)
(*  - a line of the sink is a record [tag, fields]: tag is the first       *)
(*    comma-separated field of a header line ("A", "4", "ACFT", "TAIL",    *)
(*    "DREF"), and "DATA" for a headerless csv row, which has no tag of    *)
(*    its own in the file;                                                 *)
(*  - the text of a file, a line, a unit or a raw column name is a         *)
(*    sequence of characters, in which a run of ordinary characters may    *)
(*    stand as one element.                                                *)
(***************************************************************************)
EXTENDS Integers, Sequences, FiniteSets, TLC

VARIABLES
    config,     \* FDRWriter.config : FDRConfiguration
    source,     \* the GarminLogFile handed to write: [metadata, data]
    pc,         \* position of FDRWriter::write
    out,        \* lines received by the sink so far
    block,      \* outcome of the last data_block / FlightDataBlock::new call
    new_drefs,  \* drefs argument of the last FlightDataBlock::new call
    dref_i,     \* loop position of `for dref in data_block.drefs.iter()`
    df,         \* the local `df` of FDRWriter::write
    result,     \* what write returned: "none" while running
    builder,    \* an FDRConfigurationBuilder
    built,      \* what FDRConfigurationBuilder::build returned
    calls,      \* the setter calls made on the builder, in order
    file,       \* the bytes of a log file on disk
    header,     \* outcome of GarminEISLogHeader::from_csv on the file
    schema,     \* outcome of GarminEISLogHeader::build_schema on the header
    bytes,      \* what read_bytes hands to the CSV reader
    raw,        \* a table as the CSV reader and parse_datetime deliver it
    frame,      \* outcome of the cleaning function applied to it
    applied     \* how many times the cleaning function has been applied

writer_vars == <<config, source, pc, out, block, new_drefs, dref_i, df, result>>
builder_vars == <<builder, built, calls>>
header_vars == <<file, header, schema, bytes>>
clean_vars == <<raw, frame, applied>>

vars == <<writer_vars, builder_vars, header_vars, clean_vars>>

(***************************************************************************)
(* Bounds of the model                                                     *)
(***************************************************************************)
\* columns of a source table beyond the 7 mandatory ones
MaxExtra == 2
\* rows of a source table
MaxRows == 2

(***************************************************************************)
(* Generic helpers                                                         *)
(***************************************************************************)
Null == -1

Range(s) == {s[i] : i \in 1..Len(s)}

Min(a, b) == IF a < b THEN a ELSE b

\* Take without its limit: every element is taken
Take_unlimited(s, n) == s

\* iter().take(n)
Take(s, n) == SubSeq(s, 1, Min(n, Len(s)))

\* iter().skip(n)
Skip(s, n) == SubSeq(s, Min(n, Len(s)) + 1, Len(s))

\* sequences without repetition, of length at most n, over the set S
InjSeqs(S, n) ==
    {s \in UNION {[1..k -> S] : k \in 0..n} :
        \A i, j \in 1..Len(s) : i # j => s[i] # s[j]}

(***************************************************************************)
(* fdr.rs: DataRef                                                         *)
(***************************************************************************)
\* 1.0 in units of 10^-8
ScaleOne == 10^8

DataRef_new(path) == [path |-> path, scale |-> ScaleOne]

with_scale(dref, scale) == [dref EXCEPT !.scale = scale]

(***************************************************************************)
(* garmin.rs: the static column -> dataref table                           *)
(***************************************************************************)
build_dref_map ==
    "BaroA"    :> DataRef_new("sim/cockpit2/gauges/actuators/barometer_setting_in_hg_pilot") @@
    "AltMSL"   :> DataRef_new("sim/cockpit2/gauges/indicators/altitude_ft_pilot") @@
    "OAT"      :> DataRef_new("sim/cockpit2/temperature/outside_air_temp_degc") @@
    "IAS"      :> DataRef_new("sim/cockpit2/gauges/indicators/airspeed_kts_pilot") @@
    "GndSpd"   :> DataRef_new("sim/cockpit2/gauges/indicators/ground_speed_kt") @@
    "TAS"      :> DataRef_new("sim/cockpit2/gauges/indicators/true_airspeed_kts_pilot") @@
    "VSpd"     :> DataRef_new("sim/cockpit2/gauges/indicators/vvi_fpm_pilot") @@
    "TRK"      :> DataRef_new("sim/cockpit2/gauges/indicators/ground_track_true_pilot") @@
    "bus1volts" :> DataRef_new("sim/cockpit2/electrical/bus_volts[0]") @@
    "alt1amps" :> DataRef_new("sim/cockpit2/electrical/generator_amps") @@
    "FQtyLlbs" :> with_scale(DataRef_new("sim/flightmodel/weight/m_fuel[0]"), 45359237) @@
    "FQtyRlbs" :> with_scale(DataRef_new("sim/flightmodel/weight/m_fuel[1]"), 45359237) @@
    "FQtyL"    :> with_scale(DataRef_new("sim/cockpit2/fuel/fuel_quantity[0]"), 273062384) @@
    "FQtyR"    :> with_scale(DataRef_new("sim/cockpit2/fuel/fuel_quantity[1]"), 273062384) @@
    "E1 FFlow" :> with_scale(DataRef_new("sim/cockpit2/engine/indicators/fuel_flow_kg_sec[0]"), ScaleOne) @@
    "E1 FPres" :> DataRef_new("sim/cockpit2/engine/indicators/fuel_pressure_psi[0]") @@
    "E1 OilT"  :> DataRef_new("sim/cockpit2/engine/indicators/oil_temperature_deg_C[0]") @@
    "E1 OilP"  :> DataRef_new("sim/cockpit2/engine/indicators/oil_pressure_psi[0]") @@
    "E1 RPM"   :> DataRef_new("sim/cockpit2/engine/indicators/engine_speed_rpm[0]") @@
    "E1 %Pwr"  :> DataRef_new("sim/cockpit2/engine/indicators/N1_percent") @@
    "E1 CHT1"  :> DataRef_new("sim/cockpit2/engine/indicators/CHT_CYL_deg_F[0]") @@
    "E1 CHT2"  :> DataRef_new("sim/cockpit2/engine/indicators/CHT_CYL_deg_F[1]") @@
    "E1 CHT3"  :> DataRef_new("sim/cockpit2/engine/indicators/CHT_CYL_deg_F[2]") @@
    "E1 CHT4"  :> DataRef_new("sim/cockpit2/engine/indicators/CHT_CYL_deg_F[3]") @@
    "E1 EGT1"  :> DataRef_new("sim/cockpit2/engine/indicators/EGT_CYL_deg_F[0]") @@
    "E1 EGT2"  :> DataRef_new("sim/cockpit2/engine/indicators/EGT_CYL_deg_F[1]") @@
    "E1 EGT3"  :> DataRef_new("sim/cockpit2/engine/indicators/EGT_CYL_deg_F[2]") @@
    "E1 EGT4"  :> DataRef_new("sim/cockpit2/engine/indicators/EGT_CYL_deg_F[3]")

\* dref_map.get(name): [some |-> FALSE] is None
dref_map_get(name) ==
    IF name \in DOMAIN build_dref_map
    THEN [some |-> TRUE, dref |-> build_dref_map[name]]
    ELSE [some |-> FALSE, dref |-> DataRef_new("")]

(***************************************************************************)
(* polars DataFrame operations used by the code                            *)
(***************************************************************************)
width(data) == Len(data)

height(data) == IF Len(data) = 0 THEN 0 ELSE Len(data[1].values)

get_column_names(data) == [i \in 1..Len(data) |-> data[i].name]

\* DataFrame::select(names): the named columns, in the order of `names`;
\* an error when a name is absent from the frame or is given twice
select(data, names) ==
    IF \/ \E i \in 1..Len(names) : names[i] \notin Range(get_column_names(data))
       \/ \E i, j \in 1..Len(names) : i # j /\ names[i] = names[j]
    THEN [ok |-> FALSE, data |-> <<>>]
    ELSE [ok |-> TRUE,
          data |-> [i \in 1..Len(names) |->
                      data[CHOOSE k \in 1..Len(data) : data[k].name = names[i]]]]

\* DataFrame::drop_many(names): every column whose name is not in `names`
drop_many(data, names) ==
    SelectSeq(data, LAMBDA c : c.name \notin Range(names))

\* row r of the frame, as the sequence of its cells in column order
Row(data, r) == [j \in 1..Len(data) |-> data[j].values[r]]

\* the frame restricted to the rows whose indices are listed in `keep`
TakeRows(data, keep) ==
    [j \in 1..Len(data) |->
        [data[j] EXCEPT !.values = [k \in 1..Len(keep) |-> data[j].values[keep[k]]]]]

\* the indices i of `mask` with mask[i] = TRUE, ascending
RECURSIVE TrueIdx(_)
TrueIdx(mask) ==
    IF Len(mask) = 0 THEN <<>>
    ELSE LET front == TrueIdx(SubSeq(mask, 1, Len(mask) - 1))
         IN  IF mask[Len(mask)] THEN Append(front, Len(mask)) ELSE front

\* drop_nulls dropping only the rows that are null in every column
drop_nulls_all_null_rows(data) ==
    TakeRows(data, TrueIdx([r \in 1..height(data) |->
                              \E j \in 1..Len(data) : data[j].values[r] # Null]))

\* DataFrame::drop_nulls(None): drop every row with a null in any column
drop_nulls(data) ==
    TakeRows(data, TrueIdx([r \in 1..height(data) |->
                              \A j \in 1..Len(data) : data[j].values[r] # Null]))

\* strftime counting the hours from the epoch instead of from midnight
strftime_hours_since_epoch(t) ==
    IF t = Null THEN Null
    ELSE (t \div 3600) * 10000 + ((t % 3600) \div 60) * 100 + (t % 60)

\* ChunkedArray<Datetime>::strftime("%H:%M:%S") on one instant: the time of
\* day of the instant, as the number whose digits are HHMMSS; null stays null
strftime(t) ==
    IF t = Null THEN Null
    ELSE LET secs == t % 86400
         IN  (secs \div 3600) * 10000 + ((secs % 3600) \div 60) * 100 + (secs % 60)

\* df.column("timestamp")?.datetime()?.strftime("%H:%M:%S"):
\*   "NotFound"  no column of that name        (column() fails)
\*   "NotDatetime" the column is not a datetime (datetime() fails)
\*   otherwise the rendered String column, under the same name
render_timestamp(data) ==
    IF "timestamp" \notin Range(get_column_names(data))
    THEN [status |-> "NotFound", column |-> <<>>]
    ELSE LET c == data[CHOOSE k \in 1..Len(data) : data[k].name = "timestamp"]
         IN  IF c.dtype # "Datetime"
             THEN [status |-> "NotDatetime", column |-> <<>>]
             ELSE [status |-> "Ok",
                   column |-> [name |-> c.name, dtype |-> "String",
                               values |-> [r \in 1..Len(c.values) |-> strftime(c.values[r])]]]

\* DataFrame::with_column(c): replace the column of the same name in place,
\* or append c when no column has that name
with_column(data, c) ==
    IF c.name \in Range(get_column_names(data))
    THEN [j \in 1..Len(data) |-> IF data[j].name = c.name THEN c ELSE data[j]]
    ELSE Append(data, c)

(***************************************************************************)
(* fdr.rs: FlightDataBlock                                                 *)
(***************************************************************************)
\* usize is modelled 16 bits wide (the model checker's integers are 32 bits)
UsizeModulus == 2^16

\* a - b on usize. When b > a the outcome depends on the build: a panic with
\* overflow checks (debug profile), the wrapped value without (release)
usize_sub(a, b) ==
    IF a >= b THEN {[panic |-> FALSE, value |-> a - b]}
    ELSE {[panic |-> TRUE, value |-> 0],
          [panic |-> FALSE, value |-> (a - b) % UsizeModulus]}

NoBlock == [kind |-> "None", err |-> "", names |-> <<>>, drefs |-> <<>>, data |-> <<>>]

OkBlock(drefs, data) ==
    [kind |-> "Ok", err |-> "", names |-> <<>>, drefs |-> drefs, data |-> data]

ErrBlock(err, names) ==
    [kind |-> "Err", err |-> err, names |-> names, drefs |-> <<>>, data |-> <<>>]

PanicBlock == [kind |-> "Panic", err |-> "", names |-> <<>>, drefs |-> <<>>, data |-> <<>>]

\* FlightDataBlock::new(drefs, data): the set of outcomes the builds produce
FlightDataBlock_new(drefs, data) ==
    {IF d.panic THEN PanicBlock
     ELSE IF d.value # Len(drefs)
          THEN ErrBlock("MissingDrefs", Skip(get_column_names(data), 7))
          ELSE OkBlock(drefs, data) : d \in usize_sub(width(data), 7)}

(***************************************************************************)
(* garmin.rs: GarminLogFile                                                *)
(***************************************************************************)
MANDATORY_COLS == 7

\* GarminLogFile::tail_number: metadata.get("tail_number")
GarminLogFile_tail_number(src) ==
    IF "tail_number" \in DOMAIN src.metadata
    THEN [some |-> TRUE, value |-> src.metadata["tail_number"]]
    ELSE [some |-> FALSE, value |-> ""]

\* the `drefs` of data_block: one Option<DataRef> per column after the
\* mandatory ones
column_drefs(data) ==
    LET names == Skip(get_column_names(data), MANDATORY_COLS)
    IN  [i \in 1..Len(names) |-> dref_map_get(names[i])]

\* mising_idx stopping at the first column without a dref
mising_idx_first_only(drefs) ==
    LET idx == TrueIdx([i \in 1..Len(drefs) |-> ~drefs[i].some])
    IN  [k \in 1..Min(1, Len(idx)) |-> (idx[k] - 1) + MANDATORY_COLS]

\* the `mising_idx` of data_block: 0-based indices, in the table, of the
\* columns whose dref is None
mising_idx(drefs) ==
    LET idx == TrueIdx([i \in 1..Len(drefs) |-> ~drefs[i].some])
    IN  [k \in 1..Len(idx) |-> (idx[k] - 1) + MANDATORY_COLS]

\* map(|i| self.data.get_column_names()[*i]) over mising_idx
missing_names(data, idx) ==
    [k \in 1..Len(idx) |-> get_column_names(data)[idx[k] + 1]]

\* filter_map_some collecting the drefs in reverse order
filter_map_some_reversed(drefs) ==
    LET idx == TrueIdx([i \in 1..Len(drefs) |-> drefs[i].some])
    IN  [k \in 1..Len(idx) |-> drefs[idx[Len(idx) + 1 - k]].dref]

\* drefs.into_iter().filter_map(|x| x).collect()
filter_map_some(drefs) ==
    LET idx == TrueIdx([i \in 1..Len(drefs) |-> drefs[i].some])
    IN  [k \in 1..Len(idx) |-> drefs[idx[k]].dref]

\* data_block without the strict check: unmapped columns are always dropped
data_block_ignoring_strict(cfg, data) ==
    IF ~cfg.auto_drefs
    THEN LET sel == select(data, Take(get_column_names(data), MANDATORY_COLS))
         IN  IF sel.ok THEN FlightDataBlock_new(<<>>, sel.data)
             ELSE {ErrBlock("InsufficientData", <<>>)}
    ELSE LET drefs == column_drefs(data)
             idx   == mising_idx(drefs)
         IN  FlightDataBlock_new(filter_map_some(drefs),
                                 drop_many(data, missing_names(data, idx)))

\* the values of a column multiplied by a scale (in units of 10^-8)
scaled(c, scale) ==
    [c EXCEPT !.values = [r \in 1..Len(c.values) |->
        IF c.values[r] = Null \/ scale = ScaleOne THEN c.values[r]
        ELSE (c.values[r] * scale) \div ScaleOne]]

\* data_block applying each dref's scale to the values of its column
data_block_scaling(cfg, data) ==
    IF ~cfg.auto_drefs
    THEN LET sel == select(data, Take(get_column_names(data), MANDATORY_COLS))
         IN  IF sel.ok THEN FlightDataBlock_new(<<>>, sel.data)
             ELSE {ErrBlock("InsufficientData", <<>>)}
    ELSE LET drefs == column_drefs(data)
             idx   == mising_idx(drefs)
             kept  == drop_many(data, missing_names(data, idx))
         IN  IF cfg.strict /\ Len(idx) # 0
             THEN {ErrBlock("MissingDrefs", missing_names(data, idx))}
             ELSE FlightDataBlock_new(
                      filter_map_some(drefs),
                      [j \in 1..Len(kept) |->
                          IF j > MANDATORY_COLS /\ kept[j].name \in DOMAIN build_dref_map
                          THEN scaled(kept[j], build_dref_map[kept[j].name].scale)
                          ELSE kept[j]])

\* GarminLogFile::data_block(config): the set of outcomes the builds produce
data_block(cfg, data) ==
    IF ~cfg.auto_drefs
    THEN LET sel == select(data, Take(get_column_names(data), MANDATORY_COLS))
         IN  IF sel.ok THEN FlightDataBlock_new(<<>>, sel.data)
             ELSE {ErrBlock("InsufficientData", <<>>)}
    ELSE LET drefs == column_drefs(data)
             idx   == mising_idx(drefs)
         IN  IF cfg.strict /\ Len(idx) # 0
             THEN {ErrBlock("MissingDrefs", missing_names(data, idx))}
             ELSE FlightDataBlock_new(filter_map_some(drefs),
                                      drop_many(data, missing_names(data, idx)))

(***************************************************************************)
(* fdr.rs: FDRConfiguration                                                *)
(***************************************************************************)
\* FDRConfigurationBuilder::default().build()
DefaultConfig ==
    [aircraft_model |-> "",
     defaut_tail_number |-> "N12345",
     tail_number_override |-> [some |-> FALSE, value |-> ""],
     strict |-> FALSE, auto_drefs |-> FALSE, allow_nulls |-> FALSE]

\* tail_number preferring the source's tail number to the override
tail_number_source_first(cfg, src) ==
    IF GarminLogFile_tail_number(src).some THEN GarminLogFile_tail_number(src).value
    ELSE IF cfg.tail_number_override.some THEN cfg.tail_number_override.value
         ELSE cfg.defaut_tail_number

\* FDRConfiguration::tail_number(source)
tail_number(cfg, src) ==
    IF cfg.tail_number_override.some THEN cfg.tail_number_override.value
    ELSE IF GarminLogFile_tail_number(src).some
         THEN GarminLogFile_tail_number(src).value
         ELSE cfg.defaut_tail_number

(***************************************************************************)
(* The inputs: source logs and configurations                              *)
(***************************************************************************)
\* the names clean_dataframe moves to the front, in this order
REQUIRED_COLS == <<"timestamp", "Longitude", "Latitude", "AltB", "HDG", "Pitch", "Roll">>

\* names of the columns that may follow them: two with an entry in the
\* static table (one of scale 0.45359237, one of scale 1.0) and two without
ExtraNames == {"FQtyLlbs", "IAS", "AtvWpt", "LatAc"}

\* the type build_schema and parse_datetime give a column
dtype_of(name) ==
    IF name = "timestamp" THEN "Datetime"
    ELSE IF name = "AtvWpt" THEN "String" ELSE "Float64"

\* the value of row r in column j of a source table; the instants of the
\* timestamp column are more than a day apart
CellValue(r, name, j) ==
    IF name = "timestamp" THEN 31693 + (r - 1) * 86461 ELSE r + 4 * (j - 1)

\* a table with the given column names and h rows, null in at most the one
\* cell `nullcell` = <<row, column>>
MkTable(names, h, nullcell) ==
    [j \in 1..Len(names) |->
        [name   |-> names[j],
         dtype  |-> dtype_of(names[j]),
         values |-> [r \in 1..h |->
                        IF <<r, j>> = nullcell THEN Null
                        ELSE CellValue(r, names[j], j)]]]

TablesOver(names) ==
    {MkTable(names, h, nc) : h \in 0..MaxRows,
                             nc \in {<<0, 0>>} \cup ((1..MaxRows) \X (1..Len(names)))}

\* the tables a GarminLogFile can hold: clean_dataframe has put the 7
\* required columns first, the other columns follow
SourceTables ==
    UNION {TablesOver(REQUIRED_COLS \o extra) : extra \in InjSeqs(ExtraNames, MaxExtra)}

\* tables narrower than the 7 mandatory columns
NarrowTables ==
    UNION {TablesOver(SubSeq(REQUIRED_COLS, 1, w)) : w \in 0..(MANDATORY_COLS - 1)}

\* line 1 of the log: with and without the tail_number key
Metadatas ==
    {("log_version" :> "1.00" @@ "airframe_name" :> "Cirrus SR22" @@ "system_id" :> "3AB92"),
     ("log_version" :> "1.00" @@ "airframe_name" :> "Cirrus SR22" @@ "tail_number" :> "N123AB")}

Configs ==
    {[aircraft_model |-> "Aircraft/Laminar Research/Cirrus SR22/Cirrus SR22.acf",
      defaut_tail_number |-> DefaultConfig.defaut_tail_number,
      tail_number_override |-> o,
      strict |-> s, auto_drefs |-> a, allow_nulls |-> n] :
        o \in {[some |-> FALSE, value |-> ""], [some |-> TRUE, value |-> "N999ZZ"]},
        s \in BOOLEAN, a \in BOOLEAN, n \in BOOLEAN}

(***************************************************************************)
(* The lines of an FDR file                                                *)
(***************************************************************************)
Line(tag, fields) == [tag |-> tag, fields |-> fields]

DrefLine(dref) == Line("DREF", <<dref.path, dref.scale>>)

\* CsvWriter::include_header(false).finish(df): one line per row
CsvLines(data) == [r \in 1..height(data) |-> Line("DATA", Row(data, r))]

(***************************************************************************)
(* FDRWriter::write, statement by statement                                *)
(***************************************************************************)
\* no builder is in use, no file is being loaded, no table being cleaned
NoBuilder ==
    /\ builder = [kind |-> "None"]
    /\ built = [kind |-> "None"]
    /\ calls = <<>>

NoFile ==
    /\ file = [exists |-> FALSE, bytes |-> <<>>]
    /\ header = [kind |-> "None", metadata |-> <<>>, columns |-> <<>>]
    /\ schema = [kind |-> "None"]
    /\ bytes = [kind |-> "None"]

NoFrame ==
    /\ raw = <<>>
    /\ frame = [kind |-> "None"]
    /\ applied = 0

InitWith(tables, configs, start) ==
    /\ NoBuilder /\ NoFile /\ NoFrame
    /\ config \in configs
    /\ source \in [metadata : Metadatas, data : tables]
    /\ pc = start
    /\ out = <<>>
    /\ block = NoBlock
    /\ new_drefs = <<>>
    /\ dref_i = 1
    /\ df = <<>>
    /\ result = "none"

Init == InitWith(SourceTables, Configs, "write_A")

\* writeln!(writer, ...)?: the line reaches the sink, or the write fails and
\* `?` returns the IO error
Writeln(line, next) ==
    \/ /\ out' = Append(out, line)
       /\ pc' = next
       /\ result' = result
    \/ /\ out' = out
       /\ pc' = "done"
       /\ result' = "IO"

WriteA ==
    /\ pc = "write_A"
    /\ Writeln(Line("A", <<>>), "write_4")
    /\ UNCHANGED <<config, source, block, new_drefs, dref_i, df>>
    /\ UNCHANGED <<builder_vars, header_vars, clean_vars>>

Write4 ==
    /\ pc = "write_4"
    /\ Writeln(Line("4", <<>>), "write_ACFT")
    /\ UNCHANGED <<config, source, block, new_drefs, dref_i, df>>
    /\ UNCHANGED <<builder_vars, header_vars, clean_vars>>

\* writeln!(writer, "ACFT,..") followed at once by the call of data_block
WriteACFT_then_data_block ==
    /\ pc = "write_ACFT"
    /\ Writeln(Line("ACFT", <<config.aircraft_model>>), "data_block")
    /\ UNCHANGED <<config, source, block, new_drefs, dref_i, df>>
    /\ UNCHANGED <<builder_vars, header_vars, clean_vars>>

WriteACFT ==
    /\ pc = "write_ACFT"
    /\ Writeln(Line("ACFT", <<config.aircraft_model>>), "write_TAIL")
    /\ UNCHANGED <<config, source, block, new_drefs, dref_i, df>>
    /\ UNCHANGED <<builder_vars, header_vars, clean_vars>>

WriteTAIL ==
    /\ pc = "write_TAIL"
    /\ Writeln(Line("TAIL", <<tail_number(config, source)>>), "data_block")
    /\ UNCHANGED <<config, source, block, new_drefs, dref_i, df>>
    /\ UNCHANGED <<builder_vars, header_vars, clean_vars>>

\* let data_block = source.data_block(&self.config)?;
DataBlock ==
    /\ pc = "data_block"
    /\ \E b \in data_block(config, source.data) :
          /\ block' = b
          /\ pc' = IF b.kind = "Ok" THEN "write_DREF"
                   ELSE IF b.kind = "Panic" THEN "panicked" ELSE "done"
          /\ result' = IF b.kind = "Ok" THEN result
                       ELSE IF b.kind = "Panic" THEN "Panic" ELSE "FlightDataError"
    /\ UNCHANGED <<config, source, out, new_drefs, dref_i, df>>
    /\ UNCHANGED <<builder_vars, header_vars, clean_vars>>

\* for dref in data_block.drefs.iter() { writeln!(writer, "DREF,{},{}", ..)?; }
WriteDREF ==
    /\ pc = "write_DREF"
    /\ dref_i <= Len(block.drefs)
    /\ Writeln(DrefLine(block.drefs[dref_i]), "write_DREF")
    /\ dref_i' = dref_i + 1
    /\ UNCHANGED <<config, source, block, new_drefs, df>>
    /\ UNCHANGED <<builder_vars, header_vars, clean_vars>>

\* let mut df = data_block.data;
\* if let Ok(ts) = df.column("timestamp")?.datetime()?.strftime("%H:%M:%S") {
\*     df.with_column(ts)?; }
RenderTimestamp ==
    /\ pc = "write_DREF"
    /\ dref_i > Len(block.drefs)
    /\ LET ts == render_timestamp(block.data)
       IN  IF ts.status = "Ok"
           THEN /\ df' = with_column(block.data, ts.column)
                /\ pc' = "drop_nulls"
                /\ result' = result
           ELSE /\ df' = block.data
                /\ pc' = "done"
                /\ result' = "Polars"
    /\ UNCHANGED <<config, source, out, block, new_drefs, dref_i>>
    /\ UNCHANGED <<builder_vars, header_vars, clean_vars>>

\* if !self.config.allow_nulls { df = df.drop_nulls::<String>(None)?; }
DropNulls ==
    /\ pc = "drop_nulls"
    /\ df' = IF ~config.allow_nulls THEN drop_nulls(df) ELSE df
    /\ pc' = "write_csv"
    /\ UNCHANGED <<config, source, out, block, new_drefs, dref_i, result>>
    /\ UNCHANGED <<builder_vars, header_vars, clean_vars>>

\* CsvWriter::new(writer).include_header(false).finish(&mut df)?; Ok(())
\* A failing sink has received some of the rows, not all.
WriteCsv ==
    /\ pc = "write_csv"
    /\ \/ /\ out' = out \o CsvLines(df)
          /\ result' = "Ok"
       \/ /\ \E k \in 0..(height(df) - 1) : out' = out \o SubSeq(CsvLines(df), 1, k)
          /\ result' = "IO"
    /\ pc' = "done"
    /\ UNCHANGED <<config, source, block, new_drefs, dref_i, df>>
    /\ UNCHANGED <<builder_vars, header_vars, clean_vars>>

Next ==
    \/ WriteA
    \/ Write4
    \/ WriteACFT
    \/ WriteTAIL
    \/ DataBlock
    \/ WriteDREF
    \/ RenderTimestamp
    \/ DropNulls
    \/ WriteCsv

Spec == Init /\ [][Next]_vars

(***************************************************************************)
(* The same writer over tables of any width, narrow ones included          *)
(***************************************************************************)
InitAny == InitWith(SourceTables \cup NarrowTables, Configs, "write_A")

SpecAny == InitAny /\ [][Next]_vars

(***************************************************************************)
(* FlightDataBlock::new applied to any drefs and any table                 *)
(***************************************************************************)
\* the drefs a caller may pass: entries of the static table, in any order
DrefArgs ==
    {[i \in 1..Len(s) |-> build_dref_map[s[i]]] :
        s \in InjSeqs({"FQtyLlbs", "IAS", "OAT"}, MaxExtra + 1)}

InitNew == InitWith(SourceTables \cup NarrowTables, {DefaultConfig}, "call_new")

CallNew ==
    /\ pc = "call_new"
    /\ \E drefs \in DrefArgs :
          /\ new_drefs' = drefs
          /\ block' \in FlightDataBlock_new(drefs, source.data)
    /\ pc' = "done"
    /\ UNCHANGED <<config, source, out, dref_i, df, result>>
    /\ UNCHANGED <<builder_vars, header_vars, clean_vars>>

NextNew == CallNew

SpecNew == InitNew /\ [][NextNew]_vars

(***************************************************************************)
(* Properties of the Field Mapper                                          *)
(***************************************************************************)
\* data_block has been called and its outcome is known
BlockBuilt == block.kind # "None"

\* the names of the columns of `data` after the 7 mandatory ones that have
\* (mapped = TRUE) or lack (mapped = FALSE) an entry in the static table,
\* in table order
ExtraNamesOf(data, mapped) ==
    SelectSeq(SubSeq(get_column_names(data), 8, Len(data)),
              LAMBDA n : (n \in DOMAIN build_dref_map) = mapped)

MappedMode == pc # "call_new" /\ config.auto_drefs

MinimalMode == pc # "call_new" /\ ~config.auto_drefs

\* C1: in mapped mode with strict = true, a table with at least one column
\* after the 7 mandatory ones that has no entry in the static table makes
\* data_block fail with MissingDrefs, reporting exactly the names of those
\* columns, all of them, in table order; a table without such a column does
\* not make it fail with MissingDrefs.
C1_StrictReportsEveryUnmappedColumn ==
    (BlockBuilt /\ MappedMode /\ config.strict) =>
        IF ExtraNamesOf(source.data, FALSE) # <<>>
        THEN /\ block.kind = "Err"
             /\ block.err = "MissingDrefs"
             /\ block.names = ExtraNamesOf(source.data, FALSE)
             /\ result = "FlightDataError"
        ELSE ~(block.kind = "Err" /\ block.err = "MissingDrefs")

\* C1 witness: strict mapped mode over a table with one mapped and one
\* unmapped extra column failed, reporting the unmapped one only.
C1_Witness ==
    /\ BlockBuilt /\ MappedMode /\ config.strict
    /\ ExtraNamesOf(source.data, TRUE) # <<>>
    /\ block.kind = "Err"
    /\ Len(block.names) = 1

\* C2: in mapped mode with strict = false, over a table of at least 7
\* columns, data_block returns a block whose columns are the 7 leading
\* columns of the source followed by exactly its mapped extra columns, in
\* their original order; drefs has one entry per retained extra column, and
\* drefs[i] is the static table's entry for the name of column 7 + i.
C2_LenientBlockAligned ==
    (BlockBuilt /\ MappedMode /\ ~config.strict /\ width(source.data) >= 7) =>
        /\ block.kind = "Ok"
        /\ SubSeq(block.data, 1, 7) = SubSeq(source.data, 1, 7)
        /\ SubSeq(get_column_names(block.data), 8, Len(block.data))
              = ExtraNamesOf(source.data, TRUE)
        /\ \A j \in 8..Len(block.data) : \E k \in 8..Len(source.data) :
              block.data[j] = source.data[k]
        /\ Len(block.drefs) = Len(block.data) - 7
        /\ \A i \in 1..Len(block.drefs) :
              block.drefs[i] = build_dref_map[block.data[7 + i].name]

\* C2 witness: a lenient mapped-mode block that kept two mapped columns, or
\* kept one and dropped an unmapped one that preceded it.
C2_Witness ==
    /\ BlockBuilt /\ MappedMode /\ ~config.strict
    /\ block.kind = "Ok"
    /\ width(source.data) = 9
    /\ \/ Len(block.drefs) = 2
       \/ Len(block.drefs) = 1 /\ source.data[8].name \notin DOMAIN build_dref_map

C4_MinimalKeepsMandatoryOnly ==
    (BlockBuilt /\ MinimalMode /\ width(source.data) >= 7) =>
        /\ block.kind = "Ok"
        /\ block.data = SubSeq(source.data, 1, 7)
        /\ block.drefs = <<>>

\* C4 witness: a minimal-mode block over a 9-column table with rows, one of
\* the extras mapped and one not.
C4_Witness ==
    /\ BlockBuilt /\ MinimalMode
    /\ width(source.data) = 9 /\ height(source.data) > 0
    /\ Len(ExtraNamesOf(source.data, FALSE)) = 1
    /\ block.kind = "Ok" /\ width(block.data) = 7

Tags == [i \in 1..Len(out) |-> out[i].tag]

\* the lines of the sink with the given tag, in order
LinesTagged(tag) == SelectSeq(out, LAMBDA l : l.tag = tag)

\* C6: the identity on the TAIL line is the configuration's override when
\* there is one; otherwise the source's tail_number metadata entry when there
\* is one; otherwise the configuration's default tail number.
C6_TailPrecedence ==
    Len(out) >= 4 =>
        /\ out[4].tag = "TAIL"
        /\ Len(out[4].fields) = 1
        /\ config.tail_number_override.some =>
              out[4].fields[1] = config.tail_number_override.value
        /\ (~config.tail_number_override.some /\ "tail_number" \in DOMAIN source.metadata) =>
              out[4].fields[1] = source.metadata["tail_number"]
        /\ (~config.tail_number_override.some /\ "tail_number" \notin DOMAIN source.metadata) =>
              out[4].fields[1] = config.defaut_tail_number

\* C6 witness: a TAIL line written with an override over a source that has
\* its own tail number.
C6_Witness ==
    /\ Len(out) >= 4
    /\ config.tail_number_override.some
    /\ "tail_number" \in DOMAIN source.metadata
    /\ out[4].fields[1] = "N999ZZ"

\* t is rendered as HH:MM:SS by the field f: f has the digits HHMMSS of the
\* time of day of the instant t, or both are null
RendersAs(f, t) ==
    IF t = Null THEN f = Null
    ELSE LET h == f \div 10000
             m == (f \div 100) % 100
             s == f % 100
         IN  /\ h \in 0..23 /\ m \in 0..59 /\ s \in 0..59
             /\ (t - (h * 3600 + m * 60 + s)) % 86400 = 0

\* the rows of the block's table that write has to serialize, by index
RetainedRows ==
    SelectSeq([r \in 1..height(block.data) |-> r],
              LAMBDA r : config.allow_nulls
                         \/ \A j \in 1..Len(block.data) : block.data[j].values[r] # Null)

DrefLinesOtherAllowNulls ==
    LET other == [config EXCEPT !.allow_nulls = ~config.allow_nulls]
        b == CHOOSE x \in data_block(other, source.data) : x.kind = "Ok"
    IN  [i \in 1..Len(b.drefs) |-> DrefLine(b.drefs[i])]

\* C8: with allow_nulls = false a successful write has written exactly the
\* rows of the block's table without a null in any column, in their order;
\* with allow_nulls = true it has written every row. The DREF lines are
\* those a write with the other value of allow_nulls emits.
C8_NullRowsFiltered ==
    result = "Ok" =>
        /\ Len(LinesTagged("DATA")) = Len(RetainedRows)
        /\ \A k \in 1..Len(RetainedRows) : \A j \in 2..Len(block.data) :
              LinesTagged("DATA")[k].fields[j] = block.data[j].values[RetainedRows[k]]
        /\ ~config.allow_nulls =>
              \A k \in 1..Len(LinesTagged("DATA")) :
                 \A j \in 1..Len(block.data) : LinesTagged("DATA")[k].fields[j] # Null
        /\ config.allow_nulls => Len(LinesTagged("DATA")) = height(block.data)
        /\ LinesTagged("DREF") = DrefLinesOtherAllowNulls

\* C8 witness: allow_nulls = false, a table whose first row has a null in a
\* retained extra column: the row is absent and the next one is written.
C8_Witness ==
    /\ result = "Ok" /\ ~config.allow_nulls
    /\ height(block.data) = 2 /\ width(block.data) > 7
    /\ block.data[8].values[1] = Null
    /\ Len(LinesTagged("DATA")) = 1
    /\ LinesTagged("DATA")[1].fields[2] = block.data[2].values[2]

\* the column of the source table with the given name
SourceColumn(name) ==
    source.data[CHOOSE k \in 1..Len(source.data) : source.data[k].name = name]

\* C9: the scale of a mapping is not applied to the data: every retained
\* extra column of the block holds the source's values of that column, every
\* written row holds the values of one source row in those columns, and the
\* scale is the second field of the column's DREF line.
C9_ScaleNotApplied ==
    /\ (BlockBuilt /\ pc # "call_new" /\ block.kind = "Ok") =>
          \A j \in 8..Len(block.data) :
              block.data[j].values = SourceColumn(block.data[j].name).values
    /\ result = "Ok" =>
          /\ \A l \in Range(LinesTagged("DATA")) :
                \E r \in 1..height(source.data) :
                   \A j \in 2..Len(block.data) :
                      l.fields[j] = SourceColumn(block.data[j].name).values[r]
          /\ \A i \in 1..Len(block.drefs) :
                LinesTagged("DREF")[i].fields[2] = build_dref_map[block.data[7 + i].name].scale

\* C9 witness: a successful write that declared FQtyLlbs with the scale
\* 0.45359237 and wrote a row with the source's value in that column.
C9_Witness ==
    /\ result = "Ok"
    /\ width(block.data) > 7 /\ block.data[8].name = "FQtyLlbs"
    /\ LinesTagged("DREF")[1].fields[2] = 45359237
    /\ Len(LinesTagged("DATA")) > 0
    /\ LinesTagged("DATA")[1].fields[8] = SourceColumn("FQtyLlbs").values[1]
    /\ LinesTagged("DATA")[1].fields[8] # Null

\* C10: FlightDataBlock::new(drefs, data) returns a block exactly when data
\* has at least 7 columns and len(drefs) columns beyond them, and returns an
\* error value, never aborting, for every other input, a table of fewer than
\* 7 columns included.
C10_NewTotalAndExact ==
    (pc = "done" /\ result = "none" /\ block.kind # "None") =>
        /\ block.kind \in {"Ok", "Err"}
        /\ block.kind = "Ok" <=>
              (width(source.data) >= 7 /\ width(source.data) - 7 = Len(new_drefs))

(***************************************************************************)
(* The writer when rendering the timestamp column can fail                 *)
(***************************************************************************)
\* FlightDataSource is a public trait: the table of another implementor's
\* block need not carry a datetime column named "timestamp". These tables
\* have the 7 leading columns, the first one under another name or as text.
OddTimestampTables ==
    {[j \in 1..Len(t) |-> IF j = 1 THEN [t[1] EXCEPT !.name = "time"] ELSE t[j]] :
        t \in TablesOver(REQUIRED_COLS)}
    \cup
    {[j \in 1..Len(t) |-> IF j = 1 THEN [t[1] EXCEPT !.dtype = "String"] ELSE t[j]] :
        t \in TablesOver(REQUIRED_COLS)}

InitRender == InitWith(SourceTables \cup OddTimestampTables, Configs, "write_A")

\* if let Ok(ts) = df.column("timestamp")?.datetime()?.strftime("%H:%M:%S") {..}
\* when column() and datetime() succeed and strftime returns Err: the pattern
\* does not match, nothing is returned, df keeps its datetime column and
\* write goes on to the null filter
RenderTimestampFails ==
    /\ pc = "write_DREF"
    /\ dref_i > Len(block.drefs)
    /\ render_timestamp(block.data).status = "Ok"
    /\ df' = block.data
    /\ pc' = "drop_nulls"
    /\ UNCHANGED <<config, source, out, block, new_drefs, dref_i, result>>
    /\ UNCHANGED <<builder_vars, header_vars, clean_vars>>

NextRender ==
    \/ WriteA
    \/ Write4
    \/ WriteACFT
    \/ WriteTAIL
    \/ DataBlock
    \/ WriteDREF
    \/ RenderTimestamp
    \/ RenderTimestampFails
    \/ DropNulls
    \/ WriteCsv

SpecRender == InitRender /\ [][NextRender]_vars

\* write has gone past the rendering of the timestamp column, to the null
\* filter or the serialization of the rows
PastRendering ==
    \/ pc \in {"drop_nulls", "write_csv"}
    \/ LinesTagged("DATA") # <<>>
    \/ result = "Ok"

\* the timestamp column of df is the rendered text column
TimestampRendered ==
    \E k \in 1..Len(df) : df[k].name = "timestamp" /\ df[k].dtype = "String"

\* C11: write returns an error, and serializes no row, whenever rendering
\* the timestamp column fails (column absent, column not a datetime, or the
\* formatting itself failing): write never goes past the rendering with a
\* timestamp column that is not rendered, and a missing or non-datetime
\* column ends the write with the error and without a data row.
C11_RenderFailureAborts ==
    /\ PastRendering => TimestampRendered
    /\ (BlockBuilt /\ block.kind = "Ok" /\ pc = "done"
          /\ render_timestamp(block.data).status # "Ok" /\ result # "IO") =>
          result = "Polars" /\ LinesTagged("DATA") = <<>>

\* the part of C11 that the code satisfies: a missing or a non-datetime
\* timestamp column ends the write with the error before any row
C11_PropagatedCases ==
    (BlockBuilt /\ block.kind = "Ok" /\ render_timestamp(block.data).status # "Ok") =>
        /\ ~PastRendering
        /\ pc = "done" => result \in {"Polars", "IO"}

(***************************************************************************)
(* Text: a sequence of characters. A run of characters that are neither    *)
(* blanks nor separators may stand as one element of the sequence.         *)
(***************************************************************************)
\* char::is_whitespace, for the characters that occur
IsSpace(c) == c \in {" ", "\t", "\r"}

\* str::trim_start
RECURSIVE trim_start(_)
trim_start(cs) ==
    IF cs # <<>> /\ IsSpace(Head(cs)) THEN trim_start(Tail(cs)) ELSE cs

\* str::trim_end
RECURSIVE trim_end(_)
trim_end(cs) ==
    IF cs # <<>> /\ IsSpace(cs[Len(cs)])
    THEN trim_end(SubSeq(cs, 1, Len(cs) - 1)) ELSE cs

\* str::trim
trim(cs) == trim_end(trim_start(cs))

\* the string made of the characters of a text (to_string, into)
RECURSIVE Str(_)
Str(cs) == IF cs = <<>> THEN "" ELSE Head(cs) \o Str(Tail(cs))

\* a text cell of a table: the text numbered `core` (0 is the empty text)
\* between `lead` leading and `trail` trailing blanks, at most 9 each
TextCell(core, lead, trail) == core * 100 + lead * 10 + trail

\* opt_s.map(|s| s.trim().to_string()) on a cell: null stays null
trim_cell(v) == IF v = Null THEN Null ELSE (v \div 100) * 100

(***************************************************************************)
(* garmin.rs: cleaning the loaded table                                    *)
(***************************************************************************)
OkFrame(data) == [kind |-> "Ok", data |-> data]
ErrFrame == [kind |-> "Err", data |-> <<>>]
PanicFrame == [kind |-> "Panic", data |-> <<>>]

\* clean_column_name: name.trim()
clean_column_name(name) == trim(name)

\* strip_column_names: set_column_names(trimmed names)?, which fails when
\* two columns get the same name
strip_column_names(data) ==
    LET names == [j \in 1..Len(data) |-> Str(clean_column_name(data[j].name))]
    IN  IF \E i, j \in 1..Len(names) : i # j /\ names[i] = names[j]
        THEN ErrFrame
        ELSE OkFrame([j \in 1..Len(data) |-> [data[j] EXCEPT !.name = names[j]]])

\* clean_strings: every String column is replaced by its trimmed values
clean_strings(data) ==
    OkFrame([j \in 1..Len(data) |->
        IF data[j].dtype = "String"
        THEN [data[j] EXCEPT !.values = [r \in 1..Len(@) |-> trim_cell(@[r])]]
        ELSE data[j]])

\* remove_empty_rows keeping a row only when none of its cells is null
remove_empty_rows_any_null(data) ==
    IF Len(data) = 0 THEN PanicFrame
    ELSE OkFrame(drop_nulls(data))

\* remove_empty_rows: mask = is_not_null of the first column, or-ed with
\* is_not_null of every other; fold(None, ..).unwrap() panics on a frame
\* without columns; df.filter(&mask) keeps the rows where mask is true
remove_empty_rows(data) ==
    IF Len(data) = 0 THEN PanicFrame
    ELSE OkFrame(TakeRows(data, TrueIdx([r \in 1..height(data) |->
                    \E j \in 1..Len(data) : data[j].values[r] # Null])))

\* the selection of clean_dataframe taking the columns as they stand
select_required_first_unmoved(data) ==
    IF \E i \in 1..Len(REQUIRED_COLS) :
            REQUIRED_COLS[i] \notin Range(get_column_names(data))
    THEN ErrFrame
    ELSE OkFrame(data)

\* df.lazy().select(vec![cols(REQUIRED_COLS), col("*").exclude(REQUIRED_COLS)])
\*   .collect()?: the required columns in the order of REQUIRED_COLS, then
\* every other column in frame order; an error when a required one is absent
select_required_first(data) ==
    IF \E i \in 1..Len(REQUIRED_COLS) :
            REQUIRED_COLS[i] \notin Range(get_column_names(data))
    THEN ErrFrame
    ELSE OkFrame(select(data, REQUIRED_COLS).data \o drop_many(data, REQUIRED_COLS))

\* clean_dataframe: each step is applied to the frame of the step before;
\* `?` returns the first failure
clean_dataframe(data) ==
    LET stripped == strip_column_names(data)
        cleaned  == IF stripped.kind = "Ok" THEN clean_strings(stripped.data) ELSE stripped
        nonempty == IF cleaned.kind = "Ok" THEN remove_empty_rows(cleaned.data) ELSE cleaned
    IN  IF nonempty.kind = "Ok" THEN select_required_first(nonempty.data) ELSE nonempty

(***************************************************************************)
(* The inputs of the cleaning functions                                    *)
(***************************************************************************)
\* no write is in progress
NoWriter ==
    /\ config = DefaultConfig
    /\ source = [kind |-> "None"]
    /\ pc = "idle"
    /\ out = <<>>
    /\ block = NoBlock
    /\ new_drefs = <<>>
    /\ dref_i = 1
    /\ df = <<>>
    /\ result = "none"

\* every way of merging two sequences that keeps the order of each
RECURSIVE Interleavings(_, _)
Interleavings(a, b) ==
    IF a = <<>> THEN {b}
    ELSE IF b = <<>> THEN {a}
    ELSE {<<Head(a)>> \o s : s \in Interleavings(Tail(a), b)}
         \cup {<<Head(b)>> \o s : s \in Interleavings(a, Tail(b))}

\* the required columns as they stand in a loaded table: in the order of a
\* Garmin log, where parse_datetime has appended timestamp; in the order
\* clean_dataframe gives them; and in the reverse of that order
RequiredOrders ==
    {<<"Latitude", "Longitude", "AltB", "Pitch", "Roll", "HDG", "timestamp">>,
     REQUIRED_COLS,
     [i \in 1..Len(REQUIRED_COLS) |-> REQUIRED_COLS[Len(REQUIRED_COLS) + 1 - i]]}

\* the other columns of a loaded table: a text column and a number column
CleanExtras == {"AtvWpt", "IAS"}

\* the column names of a loaded table, before padding: the required ones
\* with others anywhere among them; the same with one required column
\* absent, or with one name present twice; and no column at all
RawNameLists ==
    UNION {Interleavings(b, e) : b \in RequiredOrders, e \in InjSeqs(CleanExtras, MaxExtra)}
    \cup {SelectSeq(REQUIRED_COLS, LAMBDA n : n # "HDG") \o <<"IAS">>}
    \cup {REQUIRED_COLS \o <<"Pitch">>}
    \cup {<<>>}

\* the name of column j as the file spells it, in padding style p: style 0
\* pads no name, the others pad on the left, on the right, or not at all
RawName(name, j, p) ==
    LET k == (p * j) % 3
    IN  IF k = 1 THEN <<" ", " ", name>>
        ELSE IF k = 2 THEN <<name, " ">> ELSE <<name>>

\* the cell of row r in column j: a row is "full" (no null), "empty" (null
\* in every column) or "one" (null in every column but the first)
RawCell(rowkind, r, j, dtype) ==
    IF rowkind = "empty" \/ (rowkind = "one" /\ j > 1) THEN Null
    ELSE IF dtype = "String" THEN TextCell(r, j % 2, r % 2)
    ELSE r + 4 * (j - 1)

RowKinds == {"full", "empty", "one"}

MkRawTable(names, p, kinds) ==
    [j \in 1..Len(names) |->
        [name   |-> RawName(names[j], j, p),
         dtype  |-> dtype_of(names[j]),
         values |-> [r \in 1..Len(kinds) |-> RawCell(kinds[r], r, j, dtype_of(names[j]))]]]

\* the tables a DataFrame can be: no two columns of the same name
RawTables ==
    {t \in {MkRawTable(names, p, kinds) :
                names \in RawNameLists, p \in 0..2,
                kinds \in UNION {[1..h -> RowKinds] : h \in 0..MaxRows}} :
        \A i, j \in 1..Len(t) : i # j => t[i].name # t[j].name}

(***************************************************************************)
(* clean_dataframe applied to any loaded table                             *)
(***************************************************************************)
InitClean ==
    /\ NoWriter /\ NoBuilder /\ NoFile
    /\ raw \in RawTables
    /\ frame = [kind |-> "None"]
    /\ applied = 0

CleanDataframe ==
    /\ applied = 0
    /\ frame' = clean_dataframe(raw)
    /\ applied' = 1
    /\ UNCHANGED <<raw, writer_vars, builder_vars, header_vars>>

NextClean == CleanDataframe

SpecClean == InitClean /\ [][NextClean]_vars

\* the names of the loaded table, trimmed, in table order
RawTrimmedNames == [j \in 1..Len(raw) |-> Str(trim(raw[j].name))]

\* C12: when clean_dataframe succeeds, the first 7 columns of its result are
\* timestamp, Longitude, Latitude, AltB, HDG, Pitch, Roll in this order,
\* wherever they stood; every other column follows in its original relative
\* order; and every column of the loaded table occurs exactly once.
C12_RequiredColumnsFirst ==
    (applied = 1 /\ frame.kind = "Ok") =>
        LET names == get_column_names(frame.data)
        IN  /\ Len(names) = Len(raw)
            /\ SubSeq(names, 1, 7) = REQUIRED_COLS
            /\ SubSeq(names, 8, Len(names)) =
                  SelectSeq(RawTrimmedNames, LAMBDA n : n \notin Range(REQUIRED_COLS))
            /\ \A i, j \in 1..Len(names) : i # j => names[i] # names[j]
            /\ \A j \in 1..Len(raw) : \E k \in 1..Len(names) :
                  /\ names[k] = RawTrimmedNames[j]
                  /\ frame.data[k].dtype = raw[j].dtype

\* clean_dataframe succeeded on a table where no required column stood in
\* its final place and other columns stood among them
C12_Witness ==
    /\ applied = 1 /\ frame.kind = "Ok"
    /\ Len(raw) = 9
    /\ \A i \in 1..7 : RawTrimmedNames[i] # REQUIRED_COLS[i]
    /\ \E i \in 1..7 : RawTrimmedNames[i] \notin Range(REQUIRED_COLS)
    /\ \E j \in 1..Len(raw) : Len(raw[j].name) > 1

(***************************************************************************)
(* garmin.rs: GarminEISLogHeader                                           *)
(***************************************************************************)
\* the line feed, the carriage return and the zero byte
LF == "\n"
CR == "\r"
NUL == "NUL"

\* the position of the first c in cs, 0 when there is none
IndexOf(cs, c) ==
    IF c \in Range(cs) THEN CHOOSE i \in 1..Len(cs) : cs[i] = c /\ \A k \in 1..(i - 1) : cs[k] # c
    ELSE 0

\* str::split(sep): the pieces between the separators, empty pieces included
RECURSIVE split(_, _)
split(cs, sep) ==
    LET i == IndexOf(cs, sep)
    IN  IF i = 0 THEN <<cs>>
        ELSE <<SubSeq(cs, 1, i - 1)>> \o split(SubSeq(cs, i + 1, Len(cs)), sep)

\* the text without its first character when that is c: a line without its
\* comment character
trim_start_matches_once(cs, c) ==
    IF cs # <<>> /\ Head(cs) = c THEN Tail(cs) ELSE cs

\* str::trim_start_matches(c): every leading c is taken away
RECURSIVE trim_start_matches(_, _)
trim_start_matches(cs, c) ==
    IF cs # <<>> /\ Head(cs) = c THEN trim_start_matches(Tail(cs), c) ELSE cs

\* str::trim_end_matches(c)
RECURSIVE trim_end_matches(_, _)
trim_end_matches(cs, c) ==
    IF cs # <<>> /\ cs[Len(cs)] = c
    THEN trim_end_matches(SubSeq(cs, 1, Len(cs) - 1), c) ELSE cs

\* str::trim_matches(c): every leading and every trailing c is taken away
trim_matches(cs, c) == trim_end_matches(trim_start_matches(cs, c), c)

\* BufReader::lines(): the bytes up to each line feed, without the line feed
\* and without a carriage return before it; bytes after the last line feed
\* are a line too, no bytes are none
RECURSIVE lines(_)
lines(cs) ==
    LET i == IndexOf(cs, LF)
    IN  IF cs = <<>> THEN <<>>
        ELSE IF i = 0 THEN <<cs>>
        ELSE LET l == SubSeq(cs, 1, i - 1)
             IN  <<IF l # <<>> /\ l[Len(l)] = CR THEN SubSeq(l, 1, Len(l) - 1) ELSE l>>
                 \o lines(SubSeq(cs, i + 1, Len(cs)))

\* HashMap::insert
insert(m, k, v) == [x \in DOMAIN m \cup {k} |-> IF x = k THEN v ELSE m[x]]

\* for entry in ..split(',') { parts = entry.split('='); if let Some(key) ..
\*   if let Some(value) .. metadata.insert(key.trim(), value.trim_matches('"'))
RECURSIVE insert_entries(_, _)
insert_entries(m, entries) ==
    IF entries = <<>> THEN m
    ELSE LET parts == split(Head(entries), "=")
             m1 == IF Len(parts) >= 2
                   THEN insert(m, Str(trim(parts[1])), Str(trim_matches(parts[2], "\"")))
                   ELSE m
         IN  insert_entries(m1, Tail(entries))

NoHeader == [kind |-> "None", metadata |-> <<>>, columns |-> <<>>]
OkHeader(metadata, columns) == [kind |-> "Ok", metadata |-> metadata, columns |-> columns]
ErrHeader == [kind |-> "Err", metadata |-> <<>>, columns |-> <<>>]
PanicHeader == [kind |-> "Panic", metadata |-> <<>>, columns |-> <<>>]

\* GarminEISLogHeader::from_csv: File::open(path)? fails on a missing file;
\* lines.next().expect(..) panics when the file has no first, second or
\* third line; the lines are read from the file as it is
header_from_csv(f) ==
    IF ~f.exists THEN ErrHeader
    ELSE LET ls == lines(f.bytes)
         IN  IF Len(ls) < 3 THEN PanicHeader
             ELSE LET units == split(trim_start_matches(ls[2], "#"), ",")
                      names == split(ls[3], ",")
                      entries == split(trim_start_matches(ls[1], "#"), ",")
                  IN  OkHeader(insert_entries(<<>>, entries),
                               [i \in 1..Min(Len(units), Len(names)) |->
                                   [name |-> names[i], unit |-> trim(units[i])]])

\* GarminEISColumn::name
column_name(c) == clean_column_name(c.name)


\* the match of build_schema on a unit
FloatUnits ==
    {"MHz", "degrees", "ft", "nm", "fsd", "mt", "ft wgs", "ft Baro", "ft msl",
     "kt", "fpm", "deg", "ft/min", "deg F/min", "kts", "lbs", "gals", "volts",
     "amps", "gph", "psi", "degF", "deg F", "deg C", "%", "rpm", "inch", "Hg",
     "G", "s"}

unit_dtype(u) ==
    CASE u = "yyy-mm-dd"         -> "Date"
      [] u \in {"bool", "#"}     -> "Int64"
      [] u \in {"enum", "crc16"} -> "String"
      [] u \in FloatUnits        -> "Float64"
      [] OTHER                   -> "String"

\* Schema::from_iter: the schema is a map in insertion order; a field whose
\* name is already there replaces the type at the position of the first
RECURSIVE schema_from_iter(_, _)
schema_from_iter(acc, fields) ==
    IF fields = <<>> THEN acc
    ELSE LET f == Head(fields)
             acc1 == IF \E k \in 1..Len(acc) : acc[k].name = f.name
                     THEN [k \in 1..Len(acc) |-> IF acc[k].name = f.name THEN f ELSE acc[k]]
                     ELSE Append(acc, f)
         IN  schema_from_iter(acc1, Tail(fields))

\* GarminEISLogHeader::build_schema
build_schema(h) ==
    schema_from_iter(<<>>, [i \in 1..Len(h.columns) |->
        [name  |-> Str(column_name(h.columns[i])),
         dtype |-> unit_dtype(Str(h.columns[i].unit))]])

\* GarminEISLog::read_bytes: the bytes of the file without its trailing
\* zero bytes
read_bytes(f) ==
    IF ~f.exists THEN [kind |-> "Err", bytes |-> <<>>]
    ELSE [kind |-> "Ok", bytes |-> trim_end_matches(f.bytes, NUL)]

(***************************************************************************)
(* The inputs of the loader: log files                                     *)
(***************************************************************************)
\* zero bytes after the last line of a file
MaxPad == 2

\* first lines: key="value" entries after the comment character; an entry
\* with blanks around the key and the value; a line without the comment
\* character, with an unquoted value and a value containing `=`
MetaLines ==
    {<<"#", "airframe_info", ",", " ", "log_version", "=", "\"", "1.00", "\"", ",",
       " ", "tail_number", "=", "\"", "N123AB", "\"">>,
     <<"#", "log_version", "=", "\"", "1.00", "\"", ",",
       " ", "tail_number", " ", "=", " ", "\"", "N1", "\"", " ">>,
     <<"system_id", "=", "3AB92", ",", "note", "=", "\"", "a", "=", "b", "\"">>}

\* second lines: 4 units after the comment character; 4 units the first of
\* which is `#`; 4 units without comment character, one of them empty;
\* 2 units
UnitLines ==
    {<<"#", "yyy-mm-dd", ",", " ", "hh:mm:ss", ",", "degrees", ",", "bool">>,
     <<"#", "#", ",", "ft", " ", "wgs", ",", "enum", ",", "crc16">>,
     <<"kt", ",", ",", "%", ",", " ", "deg", " ", "F/min", " ">>,
     <<"#", "ident", ",", "#">>}

\* third lines: 4 padded names; 4 names two of which trim to the same;
\* 2 names
NameLines ==
    {<<"Lcl", " ", "Date", ",", " ", "Lcl", " ", "Time", ",", " ", " ", "Latitude", ",", "GPSfix">>,
     <<"AltB", ",", "Pitch", ",", " ", "Pitch", ",", "Roll", " ">>,
     <<"HDG", ",", "TRK">>}

DataLine == <<"2024-05-01", ",", "10:15:30", ",", "37.5", ",", "1">>

\* the lines joined: eol after every line but the last, which has it or not
RECURSIVE Join(_, _, _)
Join(ls, eol, final) ==
    IF ls = <<>> THEN <<>>
    ELSE IF Len(ls) = 1 THEN Head(ls) \o (IF final THEN eol ELSE <<>>)
    ELSE Head(ls) \o eol \o Join(Tail(ls), eol, final)

\* the first n lines of a log
LogLines(n) ==
    {SubSeq(<<m, u, c, DataLine>>, 1, n) : m \in MetaLines, u \in UnitLines, c \in NameLines}

\* the files: 0 to 4 lines, ended by LF or CR LF, the last line ended or
\* not, followed by zero bytes or not; and the file that does not exist
Files ==
    {[exists |-> TRUE,
      bytes  |-> Join(ls, eol, final) \o [k \in 1..pad |-> NUL]] :
        ls \in UNION {LogLines(n) : n \in 0..4},
        eol \in {<<LF>>, <<CR, LF>>},
        final \in BOOLEAN,
        pad \in 0..MaxPad}
    \cup {[exists |-> FALSE, bytes |-> <<>>]}

(***************************************************************************)
(* GarminEISLog::from_csv up to the CSV reader                             *)
(***************************************************************************)
InitLoad ==
    /\ NoWriter /\ NoBuilder /\ NoFrame
    /\ file \in Files
    /\ header = NoHeader
    /\ schema = [kind |-> "None"]
    /\ bytes = [kind |-> "None"]

\* let header = GarminEISLogHeader::from_csv(path)?;
HeaderFromCsv ==
    /\ header.kind = "None"
    /\ header' = header_from_csv(file)
    /\ UNCHANGED <<file, schema, bytes, writer_vars, builder_vars, clean_vars>>

\* let schema = header.build_schema();
BuildSchema ==
    /\ header.kind = "Ok"
    /\ schema.kind = "None"
    /\ schema' = [kind |-> "Ok", fields |-> build_schema(header)]
    /\ UNCHANGED <<file, header, bytes, writer_vars, builder_vars, clean_vars>>

\* Self::read_df(path, &schema)?: the reader is given read_bytes(path)?
ReadBytes ==
    /\ schema.kind = "Ok"
    /\ bytes.kind = "None"
    /\ bytes' = read_bytes(file)
    /\ UNCHANGED <<file, header, schema, writer_vars, builder_vars, clean_vars>>

NextLoad ==
    \/ HeaderFromCsv
    \/ BuildSchema
    \/ ReadBytes

SpecLoad == InitLoad /\ [][NextLoad]_vars

\* the lines of the file, as BufReader::lines() yields them
FileLines == lines(file.bytes)

\* C13: when the file has fewer than three lines (0, 1 or 2), the header
\* parser fails with a read error that it returns to its caller; it does
\* not abort the process and returns no header.
C13_ShortFileIsReadError ==
    (header.kind # "None" /\ file.exists /\ Len(FileLines) < 3) =>
        header.kind = "Err"

(***************************************************************************)
(* fdr.rs: FDRConfigurationBuilder                                         *)
(***************************************************************************)
None == [some |-> FALSE, value |-> ""]
Some(v) == [some |-> TRUE, value |-> v]

\* Option<String>::unwrap_or_default
unwrap_or_default(o) == IF o.some THEN o.value ELSE ""

\* FDRConfigurationBuilder::default()
DefaultBuilder ==
    [aircraft_model |-> None,
     default_tail_number |-> "N12345",
     tail_number_override |-> None,
     strict |-> FALSE, auto_drefs |-> FALSE, allow_nulls |-> FALSE]

\* the setters
aircraft_model(b, model) == [b EXCEPT !.aircraft_model = Some(model)]

allow_nulls(b, v) == [b EXCEPT !.allow_nulls = v]

auto_drefs(b, v) == [b EXCEPT !.auto_drefs = v]

\* default_tail_number storing the number as the override too
default_tail_number_as_override(b, v) ==
    [b EXCEPT !.default_tail_number = v, !.tail_number_override = Some(v)]

default_tail_number(b, v) == [b EXCEPT !.default_tail_number = v]

tail_number_override(b, v) == [b EXCEPT !.tail_number_override = v]

strict(b, v) == [b EXCEPT !.strict = v]

\* FDRConfigurationBuilder::build
build(b) ==
    [aircraft_model |-> unwrap_or_default(b.aircraft_model),
     defaut_tail_number |-> b.default_tail_number,
     tail_number_override |-> b.tail_number_override,
     strict |-> b.strict, auto_drefs |-> b.auto_drefs, allow_nulls |-> b.allow_nulls]

\* setter calls on one builder
MaxCalls == 3

\* the arguments passed to the setters
ModelArgs == {"", "Aircraft/Laminar Research/Cirrus SR22/Cirrus SR22.acf"}
TailArgs == {"N12345", "N54321"}
OverrideArgs == {None, Some("N12345"), Some("N54321")}

InitBuilder ==
    /\ NoWriter /\ NoFile /\ NoFrame
    /\ builder = DefaultBuilder
    /\ built = [kind |-> "None"]
    /\ calls = <<>>

\* one call b = b.setter(v)
Call(setter, v, b) ==
    /\ built.kind = "None"
    /\ Len(calls) < MaxCalls
    /\ builder' = b
    /\ calls' = Append(calls, [setter |-> setter, value |-> v])
    /\ UNCHANGED <<built, writer_vars, header_vars, clean_vars>>

SetAircraftModel ==
    \E v \in ModelArgs : Call("aircraft_model", v, aircraft_model(builder, v))

SetAllowNulls ==
    \E v \in BOOLEAN : Call("allow_nulls", v, allow_nulls(builder, v))

SetAutoDrefs ==
    \E v \in BOOLEAN : Call("auto_drefs", v, auto_drefs(builder, v))

SetDefaultTailNumber ==
    \E v \in TailArgs : Call("default_tail_number", v, default_tail_number(builder, v))

SetTailNumberOverride ==
    \E v \in OverrideArgs : Call("tail_number_override", v, tail_number_override(builder, v))

SetStrict ==
    \E v \in BOOLEAN : Call("strict", v, strict(builder, v))

\* let cfg = builder.build(): the builder is consumed
Build ==
    /\ built.kind = "None"
    /\ built' = [kind |-> "Ok", config |-> build(builder)]
    /\ UNCHANGED <<builder, calls, writer_vars, header_vars, clean_vars>>

NextBuilder ==
    \/ SetAircraftModel
    \/ SetAllowNulls
    \/ SetAutoDrefs
    \/ SetDefaultTailNumber
    \/ SetTailNumberOverride
    \/ SetStrict
    \/ Build

SpecBuilder == InitBuilder /\ [][NextBuilder]_vars

\* the value passed to the last call of a setter, its default when the
\* setter was never called
LastOf(setter, default) ==
    LET idx == {i \in 1..Len(calls) : calls[i].setter = setter}
    IN  IF idx = {} THEN default
        ELSE calls[CHOOSE i \in idx : \A k \in idx : k <= i].value

\* C14: after any sequence of setter calls on a default builder, build()
\* returns a configuration each field of which is the value passed to the
\* last call of its setter, or its default (empty aircraft model, default
\* tail number N12345, no override, the three flags false) when the setter
\* was never called; so no setter changes another field, and the override
\* and the default tail number are stored independently.
C14_BuildReturnsLastValues ==
    built.kind = "Ok" =>
        built.config =
            [aircraft_model |-> LastOf("aircraft_model", ""),
             defaut_tail_number |-> LastOf("default_tail_number", "N12345"),
             tail_number_override |-> LastOf("tail_number_override", None),
             strict |-> LastOf("strict", FALSE),
             auto_drefs |-> LastOf("auto_drefs", FALSE),
             allow_nulls |-> LastOf("allow_nulls", FALSE)]

\* as in the repository's test: the override set to N12345, then the default
\* set to N54321, one setter never called, and the configuration built
C14_Witness ==
    /\ built.kind = "Ok"
    /\ Len(calls) = 3
    /\ calls[1].setter = "aircraft_model"
    /\ calls[2].setter = "tail_number_override" /\ calls[2].value = Some("N12345")
    /\ calls[3].setter = "default_tail_number" /\ calls[3].value = "N54321"
    /\ built.config.tail_number_override = Some("N12345")
    /\ built.config.defaut_tail_number = "N54321"

(***************************************************************************)
(* remove_empty_rows applied to any loaded table, once and again           *)
(***************************************************************************)
InitRows == InitClean

\* df = remove_empty_rows(df)?, on the loaded table and then on its own result
RemoveEmptyRows ==
    /\ applied < 2
    /\ frame.kind \in {"None", "Ok"}
    /\ frame' = remove_empty_rows(IF applied = 0 THEN raw ELSE frame.data)
    /\ applied' = applied + 1
    /\ UNCHANGED <<raw, writer_vars, builder_vars, header_vars>>

NextRows == RemoveEmptyRows

SpecRows == InitRows /\ [][NextRows]_vars

\* the rows of the loaded table that are not null in every column, by index
NonEmptyRows ==
    SelectSeq([r \in 1..height(raw) |-> r],
              LAMBDA r : \E j \in 1..Len(raw) : raw[j].values[r] # Null)

\* C15: remove_empty_rows deletes exactly the rows that are null in every
\* column and keeps every other row, in order and unchanged, under the same
\* columns; applied to its own result it returns that result.
C15_RemovesExactlyEmptyRows ==
    (applied >= 1 /\ frame.kind = "Ok") =>
        /\ Len(frame.data) = Len(raw)
        /\ \A j \in 1..Len(raw) :
              /\ frame.data[j].name = raw[j].name
              /\ frame.data[j].dtype = raw[j].dtype
        /\ height(frame.data) = Len(NonEmptyRows)
        /\ \A k \in 1..Len(NonEmptyRows) :
              Row(frame.data, k) = Row(raw, NonEmptyRows[k])
        /\ applied = 2 => frame = remove_empty_rows(raw)

\* applied twice to a table holding a row null in every column before a row
\* null in some columns only
C15_Witness ==
    /\ applied = 2 /\ frame.kind = "Ok"
    /\ \E r1, r2 \in 1..height(raw) :
          /\ r1 < r2
          /\ \A j \in 1..Len(raw) : raw[j].values[r1] = Null
          /\ \E j \in 1..Len(raw) : raw[j].values[r2] = Null
          /\ \E j \in 1..Len(raw) : raw[j].values[r2] # Null
    /\ height(frame.data) < height(raw)

(***************************************************************************)
(* Properties of the Header Parser                                         *)
(***************************************************************************)
\* the unit tokens of line 2: what follows its comment character, split at
\* the commas
UnitTokens == split(trim_start_matches_once(FileLines[2], "#"), ",")

\* the name tokens of line 3
NameTokens == split(FileLines[3], ",")

\* C16: for a header of three lines with n unit tokens and n name tokens,
\* the parsed column list has n columns and its i-th column holds the i-th
\* unit token and the i-th name token, up to surrounding blanks; also when
\* the first unit token is the comment character `#` itself.
C16_ColumnsPairTokens ==
    (header.kind = "Ok" /\ Len(UnitTokens) = Len(NameTokens)) =>
        /\ Len(header.columns) = Len(UnitTokens)
        /\ \A i \in 1..Len(header.columns) :
              /\ trim(header.columns[i].unit) = trim(UnitTokens[i])
              /\ trim(header.columns[i].name) = trim(NameTokens[i])

\* the same over the headers whose first unit token is not `#`
C16_HoldsUnlessFirstUnitIsHash ==
    (header.kind = "Ok" /\ Len(UnitTokens) = Len(NameTokens)
        /\ trim(UnitTokens[1]) # <<"#">>) =>
        /\ Len(header.columns) = Len(UnitTokens)
        /\ \A i \in 1..Len(header.columns) :
              /\ trim(header.columns[i].unit) = trim(UnitTokens[i])
              /\ trim(header.columns[i].name) = trim(NameTokens[i])


\* the entries of line 1: what follows its comment character, split at the
\* commas
MetaEntries == split(trim_start_matches_once(FileLines[1], "#"), ",")

\* an entry of the form key=value, with one `=`
IsKeyValue(entry) == Len(split(entry, "=")) = 2

\* C17: for every key="value" entry of line 1, the metadata maps the key,
\* trimmed of surrounding blanks, to the value with its surrounding blanks
\* and its surrounding quotes removed: ` tail_number = "N1" ` gives
\* tail_number -> N1.
C17_MetadataTrimmed ==
    header.kind = "Ok" =>
        \A e \in Range(MetaEntries) :
            IsKeyValue(e) =>
                LET key == Str(trim(split(e, "=")[1]))
                    value == Str(trim_matches(trim(split(e, "=")[2]), "\""))
                IN  /\ key \in DOMAIN header.metadata
                    /\ header.metadata[key] = value

\* the same over the entries whose value has no blank around it
C17_HoldsWithoutBlanksAroundValue ==
    header.kind = "Ok" =>
        \A e \in Range(MetaEntries) :
            (IsKeyValue(e) /\ trim(split(e, "=")[2]) = split(e, "=")[2]) =>
                LET key == Str(trim(split(e, "=")[1]))
                    value == Str(trim_matches(split(e, "=")[2], "\""))
                IN  /\ key \in DOMAIN header.metadata
                    /\ header.metadata[key] = value


\* C18: trailing zero bytes are stripped before any line is parsed: no line
\* the header parser has parsed, and no line the CSV reader is given, holds
\* a zero byte of the file's padding.
C18_NoPaddingInParsedLines ==
    /\ header.kind = "Ok" =>
          /\ \A i \in 1..3 : NUL \notin Range(FileLines[i])
          /\ \A i \in 1..Len(header.columns) : NUL \notin Range(header.columns[i].name)
    /\ bytes.kind = "Ok" =>
          \A l \in Range(lines(bytes.bytes)) : NUL \notin Range(l)

\* the part of C18 that the code satisfies: the CSV reader is given no line
\* with a zero byte, and the same lines as the file's otherwise
C18_ReaderSeesNoPadding ==
    bytes.kind = "Ok" =>
        /\ \A l \in Range(lines(bytes.bytes)) : NUL \notin Range(l)
        /\ \E pad \in 0..(MaxPad + 1) : file.bytes = bytes.bytes \o [k \in 1..pad |-> NUL]


(***************************************************************************)
(* Properties of the Schema Inferencer                                     *)
(***************************************************************************)
\* the type the table of build_schema gives the unit of column i
TypedAsListed(i) ==
    LET u == Str(header.columns[i].unit)
        t == schema.fields[i].dtype
    IN  /\ t \in {"String", "Int64", "Float64", "Date", "Datetime"}
        /\ u \in {"bool", "#"} => t = "Int64"
        /\ u = "yyy-mm-dd" => t = "Date"
        /\ u \in {"enum", "crc16"} => t = "String"
        /\ u \in FloatUnits => t = "Float64"
        /\ u \notin FloatUnits \cup {"bool", "#", "yyy-mm-dd"} => t = "String"

\* C19: the unit -> type lookup of build_schema is total, yields one type
\* among Text, Integer, Float, Date and Timestamp for every unit (the empty
\* one included), Text for every unit it does not list, Integer for `bool`
\* and `#`, Date for the date-shaped unit, Text for `enum` and `crc16`; and
\* the schema has one field per header column, in header order, named by
\* the trimmed column name.
C19_SchemaFieldPerColumn ==
    schema.kind = "Ok" =>
        /\ Len(schema.fields) = Len(header.columns)
        /\ \A i \in 1..Len(schema.fields) :
              /\ schema.fields[i].name = Str(trim(header.columns[i].name))
              /\ TypedAsListed(i)

\* the same over the headers no two columns of which trim to the same name
C19_HoldsForDistinctNames ==
    (schema.kind = "Ok"
        /\ \A i, j \in 1..Len(header.columns) :
              i # j => trim(header.columns[i].name) # trim(header.columns[j].name)) =>
        /\ Len(schema.fields) = Len(header.columns)
        /\ \A i \in 1..Len(schema.fields) :
              /\ schema.fields[i].name = Str(trim(header.columns[i].name))
              /\ TypedAsListed(i)


(***************************************************************************)
(* Order of the steps of FDRWriter::write                                  *)
(***************************************************************************)
\* C20: write constructs the block only after the four lines A, 4, ACFT and
\* TAIL are written; whenever data_block fails, write returns that error and
\* the sink holds exactly those four lines, no DREF line and no data row;
\* and every DREF line is written before any null filtering or row
\* serialization.
C20_PreambleThenBlockThenDrefs ==
    /\ BlockBuilt => (Len(out) >= 4 /\ SubSeq(Tags, 1, 4) = <<"A", "4", "ACFT", "TAIL">>)
    /\ (block.kind = "Err" /\ pc = "done") =>
          /\ result = "FlightDataError"
          /\ Tags = <<"A", "4", "ACFT", "TAIL">>
    /\ result = "FlightDataError" => block.kind = "Err"
    /\ PastRendering =>
          /\ block.kind = "Ok"
          /\ Len(out) >= 4 + Len(block.drefs)
          /\ SubSeq(out, 5, 4 + Len(block.drefs)) =
                [i \in 1..Len(block.drefs) |-> DrefLine(block.drefs[i])]
          /\ \A i \in (5 + Len(block.drefs))..Len(out) : out[i].tag = "DATA"

\* data_block failed with MissingDrefs in strict mode after the four lines
C20_Witness ==
    /\ config.strict /\ config.auto_drefs
    /\ result = "FlightDataError"
    /\ block.kind = "Err" /\ block.err = "MissingDrefs"
    /\ Tags = <<"A", "4", "ACFT", "TAIL">>

====
